---- MODULE Spec2Model ----
(***************************************************************************)
(* Model of src/metadata/movie_dataset.py: the memoized loader of the      *)
(* bundled TMDB CSV dataset (_load_dataset under functools.lru_cache), the  *)
(* lookup facade get_movie_by_imdb and clear_dataset_cache.                 *)
(*                                                                          *)
(* Python values are modelled as follows.  A str is a sequence of           *)
(* one-character strings, so that strip() and lower() are computed, not     *)
(* assumed.  None is the one-element sequence NoneValue.  A dict is a       *)
(* function; the empty dict is the function with the empty domain.          *)
(***************************************************************************)
EXTENDS Naturals, Sequences, FiniteSets, TLC

(***************************************************************************)
(* Bounds of the model.                                                     *)
(***************************************************************************)
\* The longest file a load is checked on, in data lines after the header.
MaxRows == 3
\* The longest file on the changing disk of Spec and SpecConc.
MaxDiskRows == 2
\* The counter of loader-body executions saturates here.
MaxCount == 3
\* The number of threads calling the facade concurrently.
NumThreads == 2

(***************************************************************************)
(* Python strings.                                                          *)
(***************************************************************************)
NoneValue == <<"None">>
EmptyStr == <<>>
\* The dict literal {} (lines 24, 26, 42).
EmptyDataset == <<>>

IsSpace(c) == c = " "

RECURSIVE LStrip(_)
LStrip(s) == IF s = <<>> THEN s
             ELSE IF IsSpace(Head(s)) THEN LStrip(Tail(s)) ELSE s

RECURSIVE RStrip(_)
RStrip(s) == IF s = <<>> THEN s
             ELSE IF IsSpace(s[Len(s)]) THEN RStrip(SubSeq(s, 1, Len(s) - 1)) ELSE s

\* str.strip(): leading and trailing whitespace removed.
Strip(s) == RStrip(LStrip(s))

LowerChar(c) == CASE c = "A" -> "a"
                  [] c = "X" -> "x"
                  [] c = "B" -> "b"
                  [] OTHER -> c

\* str.lower()
Lower(s) == [i \in 1..Len(s) |-> LowerChar(s[i])]

\* The column the loader indexes by: the literal "imdb_id" of line 33.
ImdbIdCol == <<"i", "m", "d", "b", "_", "i", "d">>
TitleCol == <<"t", "i", "t", "l", "e">>

(***************************************************************************)
(* The dataset file as the loader can find it.                              *)
(*   absent        exists() is False                                        *)
(*   inaccessible  exists() raises (stat fails with an errno pathlib does   *)
(*                 not ignore, e.g. EACCES on the parent directory)         *)
(*   unopenable    exists() is True and open() raises (a directory, no      *)
(*                 read permission)                                         *)
(*   csv           a readable file: a header and data lines; a line with    *)
(*                 err = TRUE is a point where reading raises (undecodable  *)
(*                 bytes, csv.Error, an I/O error)                          *)
(* A zero-byte file is a csv file with no header and no lines.              *)
(***************************************************************************)
Line(fields) == [err |-> FALSE, fields |-> fields]
BadLine == [err |-> TRUE, fields |-> <<>>]

Lines ==
    { Line(<< <<" ", "A">>, <<" ", "x", " ">> >>),
      Line(<< <<"a">>, <<"X">> >>),
      Line(<< <<" ">>, <<"b">> >>),
      Line(<< <<"B", " ">> >>),
      Line(<< <<>>, <<>> >>),
      BadLine }

Headers ==
    { << <<" ">> \o ImdbIdCol \o <<" ">>, TitleCol >>,
      << TitleCol, ImdbIdCol >> }

RECURSIVE SeqsUpTo(_, _)
SeqsUpTo(S, n) ==
    IF n = 0 THEN { <<>> }
    ELSE LET shorter == SeqsUpTo(S, n - 1)
         IN shorter \cup { Append(s, x) : s \in { t \in shorter : Len(t) = n - 1 }, x \in S }

CsvFile(header, lines) == [kind |-> "csv", header |-> header, lines |-> lines]
NoFile(kind) == [kind |-> kind, header |-> <<>>, lines |-> <<>>]

Files ==
    { NoFile("absent"), NoFile("inaccessible"), NoFile("unopenable"), CsvFile(<<>>, <<>>) }
    \cup { CsvFile(h, ls) : h \in Headers, ls \in SeqsUpTo(Lines, MaxRows) }

\* The files the changing disk of Spec and SpecConc holds: every kind of
\* file, the csv files over one header and three lines (two rows of the same
\* key, and a line that raises).
DiskLines ==
    { Line(<< <<" ", "A">>, <<" ", "x", " ">> >>),
      Line(<< <<"a">>, <<"X">> >>),
      BadLine }

DiskFiles ==
    { NoFile("absent"), NoFile("inaccessible"), NoFile("unopenable"), CsvFile(<<>>, <<>>) }
    \cup { CsvFile(<< <<" ">> \o ImdbIdCol \o <<" ">>, TitleCol >>, ls) :
             ls \in SeqsUpTo(DiskLines, MaxDiskRows) }

\* The identifiers callers pass: None, "", " ", " A ", "a", "X", "b".
Queries ==
    { NoneValue, <<>>, <<" ">>, <<" ", "A", " ">>, <<"a">>, <<"X">>, <<"b">> }

\* The identifiers the concurrent callers of SpecConc pass: None, " A ", "b".
ThreadQueries == { NoneValue, <<" ", "A", " ">>, <<"b">> }

(***************************************************************************)
(* _load_dataset, lines 18-45, as operators.                                *)
(***************************************************************************)
Range(s) == { s[i] : i \in 1..Len(s) }

\* Line 31: reader.fieldnames = [field.strip() for field in reader.fieldnames]
TrimFieldnames(header) == [i \in 1..Len(header) |-> Strip(header[i])]

\* csv.DictReader's row (line 32): dict(zip(fieldnames, fields)), a later
\* column of the same name overwriting an earlier one, and a column the line
\* is too short for set to None (restval).
DictRow(fieldnames, fields) ==
    [n \in Range(fieldnames) |->
        LET j == CHOOSE i \in 1..Len(fieldnames) :
                    /\ fieldnames[i] = n
                    /\ \A k \in 1..Len(fieldnames) : fieldnames[k] = n => k <= i
        IN IF j <= Len(fields) THEN fields[j] ELSE NoneValue]

\* row.get("imdb_id") of line 33: None when the row has no such column.
RowGet(row, name) == IF name \in DOMAIN row THEN row[name] ELSE NoneValue

\* (x or "") of line 33: None and "" are falsy.
OrEmpty(v) == IF v = NoneValue \/ v = EmptyStr THEN EmptyStr ELSE v

\* Line 33: imdb_id = (row.get("imdb_id") or "").strip().lower()
RowKey(row) == Lower(Strip(OrEmpty(RowGet(row, ImdbIdCol))))

\* Variant of SkipRow: the check of line 34 left out.
SkipRowNever(imdb_id) == FALSE

\* Lines 34-35: if not imdb_id: continue
SkipRow(imdb_id) == imdb_id = EmptyStr

\* Lines 37-38: every str value stripped, any other value (None) kept.
NormaliseRow(row) ==
    [n \in DOMAIN row |-> IF row[n] = NoneValue THEN NoneValue ELSE Strip(row[n])]

\* Variant of StoreRecord: records.setdefault(imdb_id, normalised_row), the
\* first row of a key kept.
StoreRecordFirstWins(records, imdb_id, row) == records @@ (imdb_id :> row)

\* Line 39: records[imdb_id] = normalised_row
StoreRecord(records, imdb_id, row) == (imdb_id :> row) @@ records

\* Lines 33-39: the body of the for loop, for one line that parsed.
IndexRow(records, fieldnames, fields) ==
    LET row == DictRow(fieldnames, fields)
        imdb_id == RowKey(row)
    IN IF SkipRow(imdb_id) THEN records
       ELSE StoreRecord(records, imdb_id, NormaliseRow(row))

\* Variant of OnException: the except clause returns what was indexed so far.
OnExceptionKeepsRows(records) == records

\* Lines 40-42: except Exception: log and return {}; `records` is what the
\* loop had indexed when the exception was raised.
OnException(records) == EmptyDataset

\* Variant of LoopDone: `return records` indented into the for loop, so the
\* load returns after the first line.
LoopDoneEarly(idx, lines) == idx > 1 \/ idx > Len(lines)

\* Line 32, the loop's exit: the reader is exhausted once every line is read.
LoopDone(idx, lines) == idx > Len(lines)

\* Lines 32-45 from line `idx` on: the rows are indexed in file order; a line
\* that raises ends the load in the except clause.
RECURSIVE ReadRows(_, _, _, _)
ReadRows(fieldnames, lines, idx, records) ==
    IF LoopDone(idx, lines) THEN records
    ELSE IF lines[idx].err THEN OnException(records)
    ELSE ReadRows(fieldnames, lines, idx + 1, IndexRow(records, fieldnames, lines[idx].fields))

\* What a run of the body of _load_dataset (lines 21-45) ends with on file f:
\*   raised    the exception of exists() (line 22, outside the try) escapes
\*   value     the dict returned
\*   degraded  the dict is the {} of line 24 or of line 42
Returned(value, degraded) == [raised |-> FALSE, value |-> value, degraded |-> degraded]
Raised == [raised |-> TRUE, value |-> EmptyDataset, degraded |-> FALSE]

LoadDataset(f) ==
    IF f.kind = "inaccessible" THEN Raised
    ELSE IF f.kind = "absent" THEN Returned(EmptyDataset, TRUE)
    ELSE IF f.kind = "unopenable" THEN Returned(OnException(EmptyDataset), TRUE)
    ELSE IF \E i \in 1..Len(f.lines) : f.lines[i].err
         THEN Returned(ReadRows(TrimFieldnames(f.header), f.lines, 1, EmptyDataset), TRUE)
         ELSE Returned(ReadRows(TrimFieldnames(f.header), f.lines, 1, EmptyDataset), FALSE)

(***************************************************************************)
(* functools.lru_cache(maxsize=1) around a function without arguments: one  *)
(* slot, empty or holding the dict of one finished call.                    *)
(***************************************************************************)
NotLoaded == [loaded |-> FALSE, data |-> EmptyDataset]
Loaded(d) == [loaded |-> TRUE, data |-> d]

\* Variant of LruHit: a hand-written memo testing the dict's truth value
\* (`if _cache:`), which takes a memoized {} for an empty slot.
LruHitTruthy(c) == c.loaded /\ c.data # EmptyDataset

\* Line 18: a call is served from the slot when the slot is filled.
LruHit(c) == c.loaded

\* Variant of CacheClear: the slot is left as it is.
CacheClearKeeps(c) == c

\* Line 61: _load_dataset.cache_clear()
CacheClear(c) == NotLoaded

(***************************************************************************)
(* get_movie_by_imdb, lines 48-56.                                          *)
(***************************************************************************)
\* Line 50: if not imdb_id (None or "").
Falsy(q) == q = NoneValue \/ q = EmptyStr

\* Variant of LookupKey: the query is trimmed and not lowercased.
LookupKeyNoLower(q) == Strip(q)

\* Line 52: imdb_key = imdb_id.strip().lower()
LookupKey(q) == Lower(Strip(q))

\* Variant of EmptyKey: the check of line 53 left out.
EmptyKeyNever(k) == FALSE

\* Line 53: if not imdb_key
EmptyKey(k) == k = EmptyStr

\* Line 56: dataset.get(imdb_key): the row, or None.
NotFound == [kind |-> "none", row |-> <<>>]
Found(row) == [kind |-> "row", row |-> row]
Escaped == [kind |-> "raised", row |-> <<>>]
DictGet(dataset, k) == IF k \in DOMAIN dataset THEN Found(dataset[k]) ELSE NotFound

(***************************************************************************)
(* State.                                                                   *)
(*   file      the dataset file on disk (the environment's)                 *)
(*   cache     the slot of lru_cache around _load_dataset                   *)
(*   last      the program's last call run to its end: the operation, its   *)
(*             argument, how it ended, whether the body of _load_dataset    *)
(*             ran in it                                                    *)
(*   bodyRuns  executions of the body of _load_dataset since the last       *)
(*             clear_dataset_cache() (since the start before the first)     *)
(*   afterClear  "cleared": clear_dataset_cache() has returned and no       *)
(*             lookup with a non-empty key was made since; "first": the     *)
(*             last lookup with a non-empty key was the first one since a   *)
(*             clear; "no" otherwise                                        *)
(*   degraded  the slot holds the {} of a missing file or a failed read     *)
(* and, per thread of the concurrent specification,                         *)
(*   pc        the thread's position in get_movie_by_imdb / _load_dataset   *)
(*   key       imdb_key (line 52)                                           *)
(*   idx       the next line the reader yields (line 32)                    *)
(*   records   the local dict of line 26                                    *)
(*   ret       the value _load_dataset returned to the lru_cache wrapper    *)
(*   dataset   the local of line 55                                         *)
(***************************************************************************)
VARIABLES file, cache, last, bodyRuns, afterClear, degraded,
          pc, key, idx, records, ret, dataset

vars == <<file, cache, last, bodyRuns, afterClear, degraded,
          pc, key, idx, records, ret, dataset>>
seqVars == <<last, bodyRuns, afterClear, degraded>>
threadVars == <<pc, key, idx, records, ret, dataset>>

Threads == 1..NumThreads

Call(op, arg, outcome, ranBody) ==
    [op |-> op, arg |-> arg, outcome |-> outcome, ranBody |-> ranBody]

Bump(n) == IF n < MaxCount THEN n + 1 ELSE n

FirstAfter(a) == IF a = "cleared" THEN "first" ELSE "no"

Start ==
    /\ cache = NotLoaded
    /\ last = Call("none", NoneValue, NotFound, FALSE)
    /\ bodyRuns = 0
    /\ afterClear = "no"
    /\ degraded = FALSE
    /\ pc = [t \in Threads |-> "idle"]
    /\ key = [t \in Threads |-> EmptyStr]
    /\ idx = [t \in Threads |-> 1]
    /\ records = [t \in Threads |-> EmptyDataset]
    /\ ret = [t \in Threads |-> EmptyDataset]
    /\ dataset = [t \in Threads |-> EmptyDataset]

Init == file \in DiskFiles /\ Start

InitLoad == file \in Files /\ Start

(***************************************************************************)
(* The calls of a single-threaded caller, each run to its end.              *)
(***************************************************************************)
\* get_movie_by_imdb(q), lines 48-56, with the call of _load_dataset() it
\* makes: served from the slot, or the body run on the file as it is now and,
\* unless it raised, its dict stored in the slot.
GetMovieByImdb(q) ==
    /\ UNCHANGED <<file, threadVars>>
    /\ IF Falsy(q) \/ EmptyKey(LookupKey(q))
       THEN /\ last' = Call("get", q, NotFound, FALSE)
            /\ UNCHANGED <<cache, bodyRuns, afterClear, degraded>>
       ELSE IF LruHit(cache)
       THEN /\ last' = Call("get", q, DictGet(cache.data, LookupKey(q)), FALSE)
            /\ afterClear' = FirstAfter(afterClear)
            /\ UNCHANGED <<cache, bodyRuns, degraded>>
       ELSE LET r == LoadDataset(file)
            IN /\ bodyRuns' = Bump(bodyRuns)
               /\ afterClear' = FirstAfter(afterClear)
               /\ IF r.raised
                  THEN /\ last' = Call("get", q, Escaped, TRUE)
                       /\ UNCHANGED <<cache, degraded>>
                  ELSE /\ cache' = Loaded(r.value)
                       /\ degraded' = r.degraded
                       /\ last' = Call("get", q, DictGet(r.value, LookupKey(q)), TRUE)

\* clear_dataset_cache(), lines 59-61.
ClearDatasetCache ==
    /\ cache' = CacheClear(cache)
    /\ last' = Call("clear", NoneValue, NotFound, FALSE)
    /\ bodyRuns' = 0
    /\ afterClear' = "cleared"
    /\ degraded' = (degraded /\ cache'.loaded)
    /\ UNCHANGED <<file, threadVars>>

\* The environment replaces the dataset file.
ChangeFile(f) ==
    /\ f # file
    /\ file' = f
    /\ UNCHANGED <<cache, seqVars, threadVars>>

Next ==
    \/ \E q \in Queries : GetMovieByImdb(q)
    \/ ClearDatasetCache
    \/ \E f \in DiskFiles : ChangeFile(f)

Spec == Init /\ [][Next]_vars

\* The same caller over a file that does not change.
NextLoad ==
    \/ \E q \in Queries : GetMovieByImdb(q)
    \/ ClearDatasetCache

SpecLoad == InitLoad /\ [][NextLoad]_vars

(***************************************************************************)
(* Threads calling get_movie_by_imdb concurrently, one step per access to   *)
(* the shared slot or the file.  The lru_cache wrapper holds its lock while  *)
(* it looks the slot up and while it stores, not while the body runs.        *)
(***************************************************************************)
\* Lines 50-54: None, "" and a key that normalizes to "" return None at once.
TCall(t, q) ==
    /\ pc[t] = "idle"
    /\ IF Falsy(q) \/ EmptyKey(LookupKey(q))
       THEN UNCHANGED <<pc, key>>
       ELSE /\ key' = [key EXCEPT ![t] = LookupKey(q)]
            /\ pc' = [pc EXCEPT ![t] = "lru"]
    /\ UNCHANGED <<file, cache, seqVars, idx, records, ret, dataset>>

\* Line 55, the wrapper of line 18: a filled slot is returned, an empty one
\* sends the thread into the body.
TLru(t) ==
    /\ pc[t] = "lru"
    /\ IF LruHit(cache)
       THEN /\ dataset' = [dataset EXCEPT ![t] = cache.data]
            /\ pc' = [pc EXCEPT ![t] = "get"]
       ELSE /\ pc' = [pc EXCEPT ![t] = "exists"]
            /\ UNCHANGED dataset
    /\ UNCHANGED <<file, cache, seqVars, key, idx, records, ret>>

\* Lines 21-26: a missing file returns {}; an exception of exists() leaves
\* _load_dataset, the wrapper (which stores nothing) and get_movie_by_imdb.
TExists(t) ==
    /\ pc[t] = "exists"
    /\ IF file.kind = "inaccessible"
       THEN /\ pc' = [pc EXCEPT ![t] = "idle"]
            /\ key' = [key EXCEPT ![t] = EmptyStr]
            /\ UNCHANGED <<ret, records>>
       ELSE IF file.kind = "absent"
       THEN /\ ret' = [ret EXCEPT ![t] = EmptyDataset]
            /\ pc' = [pc EXCEPT ![t] = "store"]
            /\ UNCHANGED <<key, records>>
       ELSE /\ records' = [records EXCEPT ![t] = EmptyDataset]
            /\ pc' = [pc EXCEPT ![t] = "open"]
            /\ UNCHANGED <<key, ret>>
    /\ UNCHANGED <<file, cache, seqVars, idx, dataset>>

\* Lines 27-31: open the file and read the header.
TOpen(t) ==
    /\ pc[t] = "open"
    /\ IF file.kind = "unopenable"
       THEN /\ ret' = [ret EXCEPT ![t] = OnException(records[t])]
            /\ records' = [records EXCEPT ![t] = EmptyDataset]
            /\ pc' = [pc EXCEPT ![t] = "store"]
            /\ UNCHANGED idx
       ELSE /\ idx' = [idx EXCEPT ![t] = 1]
            /\ pc' = [pc EXCEPT ![t] = "rows"]
            /\ UNCHANGED <<ret, records>>
    /\ UNCHANGED <<file, cache, seqVars, key, dataset>>

\* Lines 32-45, one line of the file: index it, or leave through the except
\* clause, or return `records` when the reader is exhausted.
TRow(t) ==
    /\ pc[t] = "rows"
    /\ IF LoopDone(idx[t], file.lines)
       THEN /\ ret' = [ret EXCEPT ![t] = records[t]]
            /\ records' = [records EXCEPT ![t] = EmptyDataset]
            /\ idx' = [idx EXCEPT ![t] = 1]
            /\ pc' = [pc EXCEPT ![t] = "store"]
       ELSE IF file.lines[idx[t]].err
       THEN /\ ret' = [ret EXCEPT ![t] = OnException(records[t])]
            /\ records' = [records EXCEPT ![t] = EmptyDataset]
            /\ idx' = [idx EXCEPT ![t] = 1]
            /\ pc' = [pc EXCEPT ![t] = "store"]
       ELSE /\ records' = [records EXCEPT ![t] =
                             IndexRow(records[t], TrimFieldnames(file.header),
                                      file.lines[idx[t]].fields)]
            /\ idx' = [idx EXCEPT ![t] = idx[t] + 1]
            /\ UNCHANGED <<ret, pc>>
    /\ UNCHANGED <<file, cache, seqVars, key, dataset>>

\* The wrapper of line 18 after the body returned: under its lock it fills
\* the slot unless another thread filled it meanwhile, and hands the body's
\* dict to the caller (line 55).
TStore(t) ==
    /\ pc[t] = "store"
    /\ cache' = IF cache.loaded THEN cache ELSE Loaded(ret[t])
    /\ dataset' = [dataset EXCEPT ![t] = ret[t]]
    /\ ret' = [ret EXCEPT ![t] = EmptyDataset]
    /\ pc' = [pc EXCEPT ![t] = "get"]
    /\ UNCHANGED <<file, seqVars, key, idx, records>>

\* Line 56: return dataset.get(imdb_key).
TGet(t) ==
    /\ pc[t] = "get"
    /\ pc' = [pc EXCEPT ![t] = "idle"]
    /\ key' = [key EXCEPT ![t] = EmptyStr]
    /\ dataset' = [dataset EXCEPT ![t] = EmptyDataset]
    /\ UNCHANGED <<file, cache, seqVars, idx, records, ret>>

\* clear_dataset_cache() (line 61) by a thread of the program, under the
\* wrapper's lock.
TClear ==
    /\ cache' = CacheClear(cache)
    /\ UNCHANGED <<file, seqVars, threadVars>>

NextConc ==
    \/ \E t \in Threads, q \in ThreadQueries : TCall(t, q)
    \/ \E t \in Threads : TLru(t)
    \/ \E t \in Threads : TExists(t)
    \/ \E t \in Threads : TOpen(t)
    \/ \E t \in Threads : TRow(t)
    \/ \E t \in Threads : TStore(t)
    \/ \E t \in Threads : TGet(t)
    \/ TClear

SpecConc == Init /\ [][NextConc]_vars

(***************************************************************************)
(* What the specification says of a file, stated from the file alone and    *)
(* not through the loader's operators.                                      *)
(***************************************************************************)
\* The file can be read from its first byte to its last without an exception.
ReadsToEnd(f) == f.kind = "csv" /\ \A i \in 1..Len(f.lines) : ~f.lines[i].err

\* The columns whose trimmed header name is imdb_id.
IdColumns(f) == { j \in 1..Len(f.header) : Strip(f.header[j]) = ImdbIdCol }

\* The text of line i in column j; None when the line is too short.
Cell(f, i, j) ==
    IF j <= Len(f.lines[i].fields) THEN f.lines[i].fields[j] ELSE NoneValue

\* An identifier trimmed and lowercased; "" for None.
Normalize(v) == IF v = NoneValue THEN EmptyStr ELSE Lower(Strip(v))

\* The raw text of line i in the imdb_id column; None when it has none.
RawId(f, i) ==
    IF f.lines[i].err \/ IdColumns(f) = {} THEN NoneValue
    ELSE Cell(f, i, CHOOSE j \in IdColumns(f) : TRUE)

LineId(f, i) == Normalize(RawId(f, i))

\* The lines that carry identifier k.
LinesOf(f, k) == { i \in 1..Len(f.lines) : LineId(f, i) = k }

LastLineOf(f, k) == CHOOSE i \in LinesOf(f, k) : \A j \in LinesOf(f, k) : j <= i

\* The Row of line i: trimmed header name to trimmed value.
ExpectedRow(f, i) ==
    [n \in { Strip(f.header[j]) : j \in 1..Len(f.header) } |->
        LET j == CHOOSE c \in 1..Len(f.header) : Strip(f.header[c]) = n
        IN IF Cell(f, i, j) = NoneValue THEN NoneValue ELSE Strip(Cell(f, i, j))]

\* The Dataset of a finished load of f: empty unless the file reads to its
\* end, and then the last row of every non-empty identifier.
ExpectedDataset(f) ==
    IF ~ReadsToEnd(f) THEN EmptyDataset
    ELSE [k \in { LineId(f, i) : i \in 1..Len(f.lines) } \ { EmptyStr } |->
             ExpectedRow(f, LastLineOf(f, k))]

ExpectedLookup(f, k) ==
    IF k \in DOMAIN ExpectedDataset(f) THEN Found(ExpectedDataset(f)[k]) ELSE NotFound

\* The step is a call of get_movie_by_imdb of the single-threaded caller.
GetStep == last'.op = "get" /\ file' = file

\* The step is a call of clear_dataset_cache of the single-threaded caller.
ClearStep == last'.op = "clear" /\ file' = file

\* A value is None or a string without surrounding whitespace.
Trimmed(v) == v = NoneValue \/ Strip(v) = v

(***************************************************************************)
(* C1.  The body of _load_dataset runs at most once between two             *)
(* consecutive clear_dataset_cache() calls, and at most once before the     *)
(* first.                                                                   *)
(***************************************************************************)
C1_BodyRunsAtMostOncePerGeneration == bodyRuns <= 1

(***************************************************************************)
(* C2.  The first lookup with a non-empty key after clear_dataset_cache()   *)
(* runs the body of _load_dataset, and the result it returns is the lookup  *)
(* in the file as it is at that call.                                       *)
(***************************************************************************)
C2_LookupAfterClearRereads ==
    [][ (afterClear = "cleared" /\ GetStep /\ Normalize(last'.arg) # EmptyStr)
          => /\ last'.ranBody
             /\ last'.outcome.kind # "raised"
                  => last'.outcome = ExpectedLookup(file, Normalize(last'.arg)) ]_vars

\* A first lookup after a clear that ran the body and returned a row.
C2_Witness ==
    /\ afterClear = "first"
    /\ last.op = "get"
    /\ Normalize(last.arg) # EmptyStr
    /\ last.ranBody
    /\ last.outcome.kind = "row"

(***************************************************************************)
(* C3.  No call of get_movie_by_imdb ends by raising, whatever the          *)
(* identifier and the state of the dataset file.                            *)
(***************************************************************************)
C3_NoErrorSurfaces == last.outcome.kind # "raised"

C5_EmptyIdentifierTouchesNothing ==
    [][ (GetStep /\ Normalize(last'.arg) = EmptyStr)
          => /\ last'.outcome = NotFound
             /\ ~last'.ranBody
             /\ cache' = cache
             /\ bodyRuns' = bodyRuns
             /\ degraded' = degraded ]_vars

\* A whitespace-only identifier was looked up over an empty slot and a file
\* with lines: nothing was loaded.
C5_Witness ==
    /\ last.op = "get"
    /\ last.arg = <<" ">>
    /\ last.outcome = NotFound
    /\ ~cache.loaded
    /\ bodyRuns = 0
    /\ ReadsToEnd(file) /\ Len(file.lines) > 0

(***************************************************************************)
(* C6.  Every key of the memoized Dataset is non-empty, trimmed and         *)
(* lowercase and is the identifier of the row stored under it; no row is    *)
(* stored or returned whose identifier is empty, whitespace or missing.     *)
(***************************************************************************)
HasIdentifier(row) ==
    /\ ImdbIdCol \in DOMAIN row
    /\ row[ImdbIdCol] # NoneValue
    /\ Strip(row[ImdbIdCol]) # EmptyStr

C6_KeysNormalized ==
    /\ \A k \in DOMAIN cache.data :
          /\ k # EmptyStr
          /\ Strip(k) = k
          /\ Lower(k) = k
          /\ HasIdentifier(cache.data[k])
          /\ Lower(cache.data[k][ImdbIdCol]) = k
    /\ last.outcome.kind = "row" => HasIdentifier(last.outcome.row)

\* A file with a line without an identifier and a line with one was loaded.
C6_Witness ==
    /\ cache.loaded
    /\ cache.data # EmptyDataset
    /\ ReadsToEnd(file)
    /\ \E i \in 1..Len(file.lines) : RawId(file, i) \in { EmptyStr, <<" ">> }
    /\ \E i \in 1..Len(file.lines) : RawId(file, i) = NoneValue

(***************************************************************************)
(* C7.  As claimed: whenever several lines of the file carry the same       *)
(* identifier, the Dataset holds the last of them under that key.           *)
(***************************************************************************)
C7_LastDuplicateAlwaysHeld ==
    (cache.loaded /\ file.kind = "csv")
      => \A k \in { LineId(file, i) : i \in 1..Len(file.lines) } \ { EmptyStr } :
            Cardinality(LinesOf(file, k)) > 1
              => /\ k \in DOMAIN cache.data
                 /\ cache.data[k] = ExpectedRow(file, LastLineOf(file, k))

(***************************************************************************)
(* C7, amended.  When the file reads to its end without an exception and    *)
(* several lines carry the same identifier, the Dataset holds the last of   *)
(* them under that key, and a lookup of the key returns it.                 *)
(***************************************************************************)
C7_LastDuplicateWins ==
    (cache.loaded /\ ReadsToEnd(file))
      => \A k \in { LineId(file, i) : i \in 1..Len(file.lines) } \ { EmptyStr } :
            Cardinality(LinesOf(file, k)) > 1
              => /\ k \in DOMAIN cache.data
                 /\ cache.data[k] = ExpectedRow(file, LastLineOf(file, k))
                 /\ (last.op = "get" /\ Normalize(last.arg) = k)
                       => last.outcome = Found(ExpectedRow(file, LastLineOf(file, k)))

\* Two lines of one identifier and different rows; the lookup returned the
\* later one.
C7_Witness ==
    /\ cache.loaded
    /\ ReadsToEnd(file)
    /\ last.op = "get"
    /\ last.outcome.kind = "row"
    /\ \E i, j \in LinesOf(file, Normalize(last.arg)) :
          /\ i < j
          /\ ExpectedRow(file, i) # ExpectedRow(file, j)
          /\ last.outcome.row = ExpectedRow(file, j)

(***************************************************************************)
(* C8.  Under every interleaving of the threads, the slot of the cache and  *)
(* the dict a caller looks its key up in hold the complete result of a      *)
(* finished load: the whole Dataset of the file, or {} after a failed load. *)
(***************************************************************************)
C8_CacheNeverPartial ==
    /\ cache.loaded => cache.data = ExpectedDataset(file)
    /\ \A t \in Threads : pc[t] = "get" => dataset[t] = ExpectedDataset(file)

\* Two first-calls ran the body at once: one has stored its Dataset and is
\* about to look its key up, the other is in the middle of the file.
C8_Witness ==
    \E t, u \in Threads :
       /\ pc[t] = "get"
       /\ dataset[t] # EmptyDataset
       /\ cache.loaded
       /\ pc[u] = "rows"
       /\ idx[u] > 1
       /\ idx[u] <= Len(file.lines)
       /\ records[u] # EmptyDataset
       /\ records[u] # ExpectedDataset(file)

(***************************************************************************)
(* C9.  A load that meets an exception while opening or reading the file    *)
(* returns {}, whatever it had indexed: no identifier of the file is found  *)
(* afterwards.  Only a file read to its end gives a non-empty Dataset.      *)
(***************************************************************************)
C9_LoadAllOrNothing ==
    /\ (cache.loaded /\ file.kind # "inaccessible" /\ ~ReadsToEnd(file))
          => /\ cache.data = EmptyDataset
             /\ last.op = "get" => last.outcome = NotFound
    /\ cache.data # EmptyDataset => ReadsToEnd(file)

\* The file has a line with the looked-up identifier before the line that
\* raises; the lookup ran the load and returned None.
C9_Witness ==
    /\ cache.loaded
    /\ file.kind = "csv"
    /\ last.op = "get"
    /\ last.ranBody
    /\ last.outcome = NotFound
    /\ \E i, j \in 1..Len(file.lines) :
          /\ i < j
          /\ file.lines[j].err
          /\ LineId(file, i) = Normalize(last.arg)
          /\ LineId(file, i) # EmptyStr

(***************************************************************************)
(* C10.  While the slot holds the {} of a missing file or a failed read,    *)
(* every lookup returns None without running the loader, whatever the file  *)
(* has become; clear_dataset_cache() empties the slot, and the first lookup *)
(* after it returns what a file that reads to its end holds.                *)
(***************************************************************************)
C10_DegradedLoadMemoized ==
    [][ /\ (degraded /\ GetStep)
           => /\ last'.outcome = NotFound
              /\ ~last'.ranBody
              /\ cache' = cache
              /\ degraded'
        /\ (degraded /\ ClearStep)
           => ~cache'.loaded /\ ~degraded'
        /\ (afterClear = "cleared" /\ GetStep /\ Normalize(last'.arg) # EmptyStr
              /\ ReadsToEnd(file))
           => last'.outcome = ExpectedLookup(file, Normalize(last'.arg)) ]_vars

\* The slot holds the {} of a degraded load, the file now reads to its end
\* and has the identifier, and the lookup returned None without a load.
C10_Witness ==
    /\ degraded
    /\ last.op = "get"
    /\ ~last.ranBody
    /\ last.outcome = NotFound
    /\ ReadsToEnd(file)
    /\ Normalize(last.arg) \in DOMAIN ExpectedDataset(file)

====
